---- MODULE Spec2Model ----
(***************************************************************************)
(* audioping: round-trip audio latency measurement.                        *)
(*                                                                         *)
(* Two hardware-driven callbacks of src/main.rs share two atomics:         *)
(*   signal_active : AtomicBool  (the "armed" flag)                        *)
(*   signal_start  : AtomicU64   (emission start in ns, 0 = unset)         *)
(* input_data_fn  (capture side, detector)  lines 85-115                   *)
(* output_data_fn (playback side, transmitter) lines 118-146               *)
(*                                                                         *)
(* Every SeqCst atomic access and every read of the monotonic clock is one *)
(* step; computation on a callback's own locals is folded into the shared  *)
(* access that precedes it.  Samples are f32 in the source; they are       *)
(* modelled as integers on a scale where the default sensitivity is 1.     *)
(*                                                                         *)
(* begin_stamped, start_at_disarm, last_in, o_fresh, o_unstamped,          *)
(* start_fresh, stamps and arms are history variables: they record what    *)
(* happened and are read by no action's guard.  The clock and the number   *)
(* of reports are bounded.                                                 *)
(*                                                                         *)
(* The callbacks' work on their own data is modelled apart from the        *)
(* interleaving: the scan of a capture block, the delay formula and the    *)
(* filling of a playback block are operators, each exercised by its own    *)
(* specification (ScanSpec, DelaySpec, FillSpec).                          *)
(***************************************************************************)
EXTENDS Integers, Sequences, FiniteSets

\* ------------------------------------------------------------------ bounds
\* Largest reading of the monotonic clock (ns since start_time).
MaxTime == 3
\* Longest run of deviating frames in a capture block of the callback model.
MaxTone == 11
\* Most reports printed in one run.
MaxReports == 2
\* Most frames of a capture block in the scan model.
MaxFrames == 12
\* Most channels of the negotiated stream configuration.
MaxChannels == 2
\* Largest elapsed time of the delay model, in milliseconds.
MaxMillis == 5
\* Largest sub-block correction of the delay model, in units of 48 frames.
MaxCorrection == 5
\* Most samples of a playback block in the fill model.
MaxBlock == 7

\* ------------------------------------------------------- program constants
\* --sensitivity default "1" (main.rs:28), clamped to [0,2] (main.rs:29).
sensitivity == 1
\* The literal 10 of `amplitude_count <= 10` and `amplitude_count > 10`.
ActivityThreshold == 10

\* Sample values of the first channel: quiet level and a level that deviates
\* from it by more than sensitivity.
Samples == {0, 2}

VARIABLES
  signal_active,    \* AtomicBool shared by both callbacks
  signal_start,     \* AtomicU64 shared by both callbacks, 0 = unset
  now,              \* start_time.elapsed().as_nanos(), monotonic
  channels,         \* config.channels
  ipc,              \* position of input_data_fn
  frame_start,      \* input local
  amplitude_count,  \* input local
  delay_count,      \* input local
  amplitude,        \* input local
  begin_stamped,    \* signal_active and signal_start # 0 held when the input began
  start_at_disarm,  \* value signal_start held when the input's swap(false) ran
  last_in,          \* how the last completed input invocation ended
  opc,              \* position of output_data_fn
  o_now,            \* output local: the clock reading passed to compare_exchange
  o_fresh,          \* o_now was read after the latest false->true arm transition
  o_unstamped,      \* the invocation loaded signal_active = true while signal_start = 0
  start_fresh,      \* signal_start holds a reading taken after the latest arm
  stamps,           \* successful compare_exchange calls since the latest arm
  arms,             \* false->true transitions of signal_active so far
  reports,          \* the number of "Delay: ..." lines printed so far
  report,           \* the last line printed
  data,             \* scan model: the capture block under test
  scanned,          \* scan model: the result of scanning data
  latency,          \* delay model: the inputs and the result of the delay formula
  playback          \* fill model: the playback block and how it was filled

vars == <<signal_active, signal_start, now, channels, ipc, frame_start,
          amplitude_count, delay_count, amplitude, begin_stamped,
          start_at_disarm, last_in, opc, o_now, o_fresh, o_unstamped,
          start_fresh, stamps,
          arms, reports, report, data, scanned, latency, playback>>

inputVars == <<ipc, frame_start, amplitude_count, delay_count, amplitude,
               begin_stamped, start_at_disarm, last_in>>
outputVars == <<opc, o_now, o_fresh, o_unstamped>>
scanVars == <<data, scanned>>
pureVars == <<data, scanned, latency, playback>>

\* ------------------------------------------------------- the capture scan
None == [some |-> FALSE, val |-> 0]
Some(x) == [some |-> TRUE, val |-> x]

MinOf(a, b) == IF a < b THEN a ELSE b
MaxOf(a, b) == IF a > b THEN a ELSE b

\* Option::unwrap_or
UnwrapOr(o, d) == IF o.some THEN o.val ELSE d

\* chunks_exact in place of chunks: a short last chunk is dropped.
NumFrames_Exact(d, ch) == Len(d) \div ch

\* data.chunks(channels) and data.chunks_mut(channels): the number of chunks;
\* the last may be short.
NumFrames(d, ch) == (Len(d) + ch - 1) \div ch

\* The last sample of the i-th chunk in place of frame[0].
FirstSample_Last(d, ch, i) == d[MinOf(i * ch, Len(d))]

\* frame[0] of the i-th chunk (1-based).
FirstSample(d, ch, i) == d[(i - 1) * ch + 1]

ScanInit == [min |-> None, max |-> None, amplitude_count |-> 0, delay_count |-> 0]

\* The loop body with the delay test on the count before this frame's increment.
ScanFrame_StaleCount(st, sample) ==
  LET mn == IF st.min.some THEN Some(MinOf(st.min.val, sample)) ELSE Some(sample)
      mx == IF st.max.some THEN Some(MaxOf(st.max.val, sample)) ELSE Some(sample)
      ac == IF mx.val - mn.val > sensitivity
              THEN st.amplitude_count + 1 ELSE st.amplitude_count
      dc == IF st.amplitude_count <= ActivityThreshold
              THEN st.delay_count + 1 ELSE st.delay_count
  IN  [min |-> mn, max |-> mx, amplitude_count |-> ac, delay_count |-> dc]

\* One iteration of the for loop over the frames.
ScanFrame(st, sample) ==
  LET mn == IF st.min.some THEN Some(MinOf(st.min.val, sample)) ELSE Some(sample)
      mx == IF st.max.some THEN Some(MaxOf(st.max.val, sample)) ELSE Some(sample)
      ac == IF mx.val - mn.val > sensitivity
              THEN st.amplitude_count + 1 ELSE st.amplitude_count
      dc == IF ac <= ActivityThreshold
              THEN st.delay_count + 1 ELSE st.delay_count
  IN  [min |-> mn, max |-> mx, amplitude_count |-> ac, delay_count |-> dc]

RECURSIVE ScanUpTo(_, _, _)
ScanUpTo(d, ch, n) ==
  IF n = 0 THEN ScanInit
  ELSE ScanFrame(ScanUpTo(d, ch, n - 1), FirstSample(d, ch, n))

\* The whole scan of a block: the counters and the peak-to-peak amplitude.
Scan(d, ch) ==
  LET st == ScanUpTo(d, ch, NumFrames(d, ch))
  IN  [amplitude_count |-> st.amplitude_count,
       delay_count     |-> st.delay_count,
       amplitude       |-> UnwrapOr(st.max, 0) - UnwrapOr(st.min, 0)]

\* The loud test with >= in place of >.
Classify_GE(ac) ==
  IF ac >= ActivityThreshold THEN "loud"
  ELSE IF ac = 0 THEN "silent" ELSE "ambiguous"

\* The branch taken after the scan.
Classify(ac) ==
  IF ac > ActivityThreshold THEN "loud"
  ELSE IF ac = 0 THEN "silent" ELSE "ambiguous"

\* ------------------------------------------------------------- block inputs
\* An interleaved block: frame i carries mono[i] on the first channel and
\* fill on every other channel.
Interleave(mono, fill, ch) ==
  [j \in 1..(Len(mono) * ch) |->
     IF (j - 1) % ch = 0 THEN mono[((j - 1) \div ch) + 1] ELSE fill]

\* Capture blocks fed to the callback model: one quiet frame followed by m
\* deviating frames, so that amplitude_count = m covers 0, 1, 10 and 11.
ToneBlock(m, ch) ==
  Interleave([i \in 1..(m + 1) |-> IF i = 1 THEN 0 ELSE 2], 2, ch)

CaptureBlocks(ch) == {ToneBlock(m, ch) : m \in 0..MaxTone}

\* --------------------------------------------------------------- initial state
\* The result slot of the scan model before the scan has run.
NotScanned ==
  [done |-> FALSE, amplitude_count |-> 0, delay_count |-> 0, amplitude |-> 0,
   class |-> "none"]

\* The delay model and the fill model at rest.
NoLatency ==
  [done |-> FALSE, elapsed |-> 0, delay_count |-> 0, sample_rate |-> 1,
   delay_ms |-> 0]
NoPlayback ==
  [done |-> FALSE, armed |-> FALSE, sample_rate |-> 1, block |-> <<>>]

\* Nothing printed yet.
NoReport ==
  [frame_start |-> 0, signal_start |-> 0, elapsed |-> 0, wrapped |-> FALSE,
   delay_count |-> 0, amplitude |-> 0, at_disarm |-> 0, fresh |-> FALSE]

\* Lines 77-82: signal_active = false, signal_start = 0; both callbacks idle.
\* The streams start after start_time was taken, so the clock is past 0.
InitCallbacks ==
  /\ signal_active = FALSE
  /\ signal_start = 0
  /\ now = 1
  /\ ipc = "idle"
  /\ frame_start = 0
  /\ amplitude_count = 0
  /\ delay_count = 0
  /\ amplitude = 0
  /\ begin_stamped = FALSE
  /\ start_at_disarm = 0
  /\ last_in = "none"
  /\ opc = "idle"
  /\ o_now = 0
  /\ o_fresh = FALSE
  /\ o_unstamped = FALSE
  /\ start_fresh = FALSE
  /\ stamps = 0
  /\ arms = 0
  /\ reports = 0
  /\ report = NoReport

Init ==
  /\ InitCallbacks
  /\ channels \in 1..MaxChannels
  /\ data = <<>>
  /\ scanned = NotScanned
  /\ latency = NoLatency
  /\ playback = NoPlayback

\* The monotonic clock advances.
Tick ==
  /\ now < MaxTime
  /\ now' = now + 1
  /\ UNCHANGED <<signal_active, signal_start, channels, inputVars, outputVars,
                 start_fresh, stamps, arms, reports, report, pureVars>>

\* ------------------------------------------------------------ input_data_fn
\* The scan of every block the callback model delivers, per channel count.
ScanTable ==
  [ch \in 1..MaxChannels |-> [d \in CaptureBlocks(ch) |-> Scan(d, ch)]]

\* Lines 86-101: read the clock and scan the block.
InputBegin(d) ==
  /\ ipc = "idle"
  /\ reports < MaxReports
  /\ LET r == ScanTable[channels][d]
     IN  /\ frame_start' = now
         /\ amplitude_count' = r.amplitude_count
         /\ delay_count' = r.delay_count
         /\ amplitude' = r.amplitude
  /\ begin_stamped' = (signal_active /\ signal_start # 0)
  /\ ipc' = "branch"
  /\ UNCHANGED <<signal_active, signal_start, now, channels, start_at_disarm,
                 last_in, outputVars, start_fresh, stamps, arms, reports, report,
                 pureVars>>

\* The capture device delivers some block.
InputDeliver == \E d \in CaptureBlocks(channels) : InputBegin(d)

\* The end of an invocation: its locals go out of scope.
InputReturn(how) ==
  /\ ipc' = "idle"
  /\ last_in' = how
  /\ frame_start' = 0
  /\ amplitude_count' = 0
  /\ delay_count' = 0
  /\ amplitude' = 0
  /\ start_at_disarm' = 0
  /\ UNCHANGED begin_stamped

\* The invocation goes on to position p.
InputGoto(p) ==
  /\ ipc' = p
  /\ UNCHANGED <<frame_start, amplitude_count, delay_count, amplitude,
                 begin_stamped, last_in>>

\* Lines 102 and 109: neither branch is taken.
InputIgnore ==
  /\ ipc = "branch"
  /\ Classify(amplitude_count) = "ambiguous"
  /\ InputReturn("ambiguous")
  /\ UNCHANGED <<signal_active, signal_start, now, channels, outputVars,
                 start_fresh, stamps, arms, reports, report, pureVars>>

\* The loud branch without the `if was_active` test.
InputSwapFalse_NoCheck ==
  /\ ipc = "branch"
  /\ Classify(amplitude_count) = "loud"
  /\ signal_active' = FALSE
  /\ InputGoto("load") /\ start_at_disarm' = signal_start
  /\ UNCHANGED <<signal_start, now, channels, outputVars, start_fresh, stamps,
                 arms, reports, report, pureVars>>

\* The loud branch with a load in place of the swap(false).
InputSwapFalse_NoClear ==
  /\ ipc = "branch"
  /\ Classify(amplitude_count) = "loud"
  /\ signal_active' = signal_active
  /\ IF signal_active
       THEN InputGoto("load") /\ start_at_disarm' = signal_start
       ELSE InputReturn("stray_loud")
  /\ UNCHANGED <<signal_start, now, channels, outputVars, start_fresh, stamps,
                 arms, reports, report, pureVars>>

\* Lines 102-104: was_active = signal_active.swap(false); if was_active ...
InputSwapFalse ==
  /\ ipc = "branch"
  /\ Classify(amplitude_count) = "loud"
  /\ signal_active' = FALSE
  /\ IF signal_active
       THEN InputGoto("load") /\ start_at_disarm' = signal_start
       ELSE InputReturn("stray_loud")
  /\ UNCHANGED <<signal_start, now, channels, outputVars, start_fresh, stamps,
                 arms, reports, report, pureVars>>

\* Lines 105-107: signal_start.load(), the u64 subtraction, the report.
\* When the loaded value is later than frame_start the subtraction wraps
\* (build without overflow checks): the report is printed from the wrapped
\* difference, recorded here as a negative elapsed with wrapped = TRUE.
InputLoadReport ==
  /\ ipc = "load"
  /\ reports' = reports + 1
  /\ report' =
        [frame_start  |-> frame_start,
         signal_start |-> signal_start,
         elapsed      |-> frame_start - signal_start,
         wrapped      |-> signal_start > frame_start,
         delay_count  |-> delay_count,
         amplitude    |-> amplitude,
         at_disarm    |-> start_at_disarm,
         fresh        |-> start_fresh]
  /\ InputReturn("report")
  /\ UNCHANGED <<signal_active, signal_start, now, channels, outputVars,
                 start_fresh, stamps, arms, pureVars>>

\* Line 105 in a build with overflow checks: `frame_start - signal_start`
\* panics with "attempt to subtract with overflow"; nothing is printed and
\* the capture callback does not run again.
InputLoadPanic ==
  /\ ipc = "load"
  /\ signal_start > frame_start
  /\ ipc' = "panicked"
  /\ last_in' = "panic"
  /\ UNCHANGED <<signal_active, signal_start, now, channels, frame_start,
                 amplitude_count, delay_count, amplitude, begin_stamped,
                 start_at_disarm, outputVars, start_fresh, stamps, arms, reports,
                 report, pureVars>>

\* The silent branch without the `if !was_active` test.
InputSwapTrue_AlwaysStore ==
  /\ ipc = "branch"
  /\ Classify(amplitude_count) = "silent"
  /\ signal_active' = TRUE
  /\ InputGoto("store")
  /\ IF signal_active
       THEN UNCHANGED <<o_fresh, start_fresh, stamps, arms>>
       ELSE /\ o_fresh' = FALSE /\ start_fresh' = FALSE /\ stamps' = 0
            /\ arms' = arms + 1
  /\ UNCHANGED <<signal_start, now, channels, start_at_disarm, opc, o_now,
                 o_unstamped, reports, report, pureVars>>

\* Lines 109-111: was_active = signal_active.swap(true); if !was_active ...
\* A false->true transition opens a new arming cycle: every clock reading
\* taken before it is stale from here on.
InputSwapTrue ==
  /\ ipc = "branch"
  /\ Classify(amplitude_count) = "silent"
  /\ signal_active' = TRUE
  /\ IF signal_active
       THEN /\ InputReturn("already_armed")
            /\ UNCHANGED <<o_fresh, start_fresh, stamps, arms>>
       ELSE /\ InputGoto("store")
            /\ UNCHANGED start_at_disarm
            /\ o_fresh' = FALSE
            /\ start_fresh' = FALSE
            /\ stamps' = 0
            /\ arms' = arms + 1
  /\ UNCHANGED <<signal_start, now, channels, opc, o_now, o_unstamped,
                 reports, report, pureVars>>

\* Line 112: signal_start.store(0).
InputStore ==
  /\ ipc = "store"
  /\ signal_start' = 0
  /\ start_fresh' = FALSE
  /\ InputReturn("armed")
  /\ UNCHANGED <<signal_active, now, channels, outputVars, stamps, arms, reports,
                 report, pureVars>>

\* ----------------------------------------------------------- output_data_fn
\* Line 119: signal_active2.load().  Armed: the block is filled with the tone
\* (lines 121-131).  Not armed: the block is muted (lines 140-144) and the
\* invocation ends.
OutputLoad ==
  /\ opc = "idle"
  /\ opc' = IF signal_active THEN "clock" ELSE "idle"
  /\ o_unstamped' = (signal_active /\ signal_start = 0)
  /\ UNCHANGED <<signal_active, signal_start, now, channels, inputVars, o_now,
                 o_fresh, start_fresh, stamps, arms, reports, report, pureVars>>

\* Line 134: start_time.elapsed().as_nanos() as u64, the argument of the
\* compare_exchange, evaluated before the call.
OutputClock ==
  /\ opc = "clock"
  /\ o_now' = now
  /\ o_fresh' = TRUE
  /\ opc' = "cas"
  /\ UNCHANGED <<signal_active, signal_start, now, channels, inputVars,
                 o_unstamped, start_fresh, stamps, arms, reports, report, pureVars>>

\* Lines 132-137: signal_start2.compare_exchange(0, o_now); result ignored.
OutputCAS ==
  /\ opc = "cas"
  /\ IF signal_start = 0
       THEN /\ signal_start' = o_now
            /\ start_fresh' = o_fresh
            /\ stamps' = MinOf(stamps + 1, 2)
       ELSE UNCHANGED <<signal_start, start_fresh, stamps>>
  /\ opc' = "idle"
  /\ o_now' = 0
  /\ o_fresh' = FALSE
  /\ o_unstamped' = FALSE
  /\ UNCHANGED <<signal_active, now, channels, inputVars, arms, reports, report, pureVars>>

Next ==
  \/ Tick
  \/ InputDeliver
  \/ InputIgnore
  \/ InputSwapFalse
  \/ InputLoadReport
  \/ InputLoadPanic
  \/ InputSwapTrue
  \/ InputStore
  \/ OutputLoad
  \/ OutputClock
  \/ OutputCAS

Spec == Init /\ [][Next]_vars

\* The playback stream keeps calling output_data_fn for as long as it plays
\* (lines 157-158), and an invocation that has begun runs to its end: every
\* step of the playback callback is weakly fair.  Nothing obliges the capture
\* side to deliver any particular block.
FairSpec ==
  /\ Spec
  /\ WF_vars(OutputLoad)
  /\ WF_vars(OutputClock)
  /\ WF_vars(OutputCAS)

\* ------------------------------------------------------------- the scan model
\* data is any block of at most MaxFrames frames over Samples, for every
\* channel count, every content of the other channels and every short last
\* chunk.
InitScan ==
  /\ InitCallbacks
  /\ channels \in 1..MaxChannels
  /\ \E n \in 0..MaxFrames : \E mono \in [1..n -> Samples] : \E fill \in Samples :
       \E cut \in (IF n = 0 THEN {0} ELSE 0..(channels - 1)) :
         data = SubSeq(Interleave(mono, fill, channels), 1, n * channels - cut)
  /\ scanned = NotScanned
  /\ latency = NoLatency
  /\ playback = NoPlayback

\* Lines 88-102/109 applied to data.
ApplyScan ==
  /\ ~scanned.done
  /\ LET r == Scan(data, channels)
     IN  scanned' = [done |-> TRUE,
                     amplitude_count |-> r.amplitude_count,
                     delay_count |-> r.delay_count,
                     amplitude |-> r.amplitude,
                     class |-> Classify(r.amplitude_count)]
  /\ UNCHANGED <<signal_active, signal_start, now, channels, inputVars,
                 outputVars, start_fresh, stamps, arms, reports, report, data,
                 latency, playback>>

ScanNext == ApplyScan

ScanSpec == InitScan /\ [][ScanNext]_vars

\* ------------------------------------------------------------ the delay model
\* Lines 105-106: (frame_start - signal_start) as f32 / 1000.0
\*                + delay_count as f32 * 1000.0 / sample_rate.
\* f32 arithmetic is exact on the inputs of the delay model; where a quotient
\* is exact the integer quotient is the f32 result.
DelayMs(elapsed, dc, sr) == (elapsed \div 1000) + ((dc * 1000) \div sr)

\* config.sample_rate values (line 75) of the delay model.
SampleRates == {8000, 16000, 48000}

\* Whole milliseconds of elapsed nanoseconds, and frame counts that are whole
\* milliseconds at every rate of SampleRates.
LatencyInputs ==
  [done : {FALSE},
   elapsed : {m * 1000000 : m \in 0..MaxMillis},
   delay_count : {48 * j : j \in 0..MaxCorrection},
   sample_rate : SampleRates,
   delay_ms : {0}]

InitDelay ==
  /\ InitCallbacks
  /\ channels = 1
  /\ data = <<>>
  /\ scanned = NotScanned
  /\ latency \in LatencyInputs
  /\ playback = NoPlayback

ApplyDelay ==
  /\ ~latency.done
  /\ latency' = [latency EXCEPT
        !.done = TRUE,
        !.delay_ms = DelayMs(latency.elapsed, latency.delay_count,
                             latency.sample_rate)]
  /\ UNCHANGED <<signal_active, signal_start, now, channels, inputVars,
                 outputVars, start_fresh, stamps, arms, reports, report, data,
                 scanned, playback>>

DelayNext == ApplyDelay

DelaySpec == InitDelay /\ [][DelayNext]_vars

\* ------------------------------------------------------------- the fill model
\* A sample of the playback block: how often the invocation wrote it and what
\* it holds.  Stale is whatever the buffer held before the callback, Zero is
\* 0f32, Tone(c) is (c * 440 * 2 * PI / sample_rate).sin() * volume.
Stale == [writes |-> 0, kind |-> "stale", clock |-> 0]
Zero == [kind |-> "zero", clock |-> 0]
Tone(c) == [kind |-> "tone", clock |-> c]

\* The indices of the f-th chunk of data.chunks_mut(channels), with the short
\* last chunk of a block that is no multiple of the channel count.  The
\* number of chunks depends on the length of d alone.
ChunkOf(d, ch, f) == ((f - 1) * ch + 1) .. MinOf(f * ch, Len(d))

\* Lines 127-129 and 141-143: for sample in frame.iter_mut() { *sample = v }.
WriteFrame(block, ch, f, v) ==
  [j \in 1..Len(block) |->
     IF j \in ChunkOf(block, ch, f)
       THEN [writes |-> block[j].writes + 1, kind |-> v.kind, clock |-> v.clock]
       ELSE block[j]]

\* Lines 120-131 (armed) and 140-144 (not armed) after the first n frames:
\* the block and the oscillator's sample_clock.
RECURSIVE FillUpTo(_, _, _, _, _)
FillUpTo(block, ch, sr, armed, n) ==
  IF n = 0
    THEN [block |-> block, sample_clock |-> 0]
    ELSE LET prev == FillUpTo(block, ch, sr, armed, n - 1)
             clock == (prev.sample_clock + 1) % sr
         IN  IF armed
               THEN [block |-> WriteFrame(prev.block, ch, n, Tone(clock)),
                     sample_clock |-> clock]
               ELSE [block |-> WriteFrame(prev.block, ch, n, Zero),
                     sample_clock |-> 0]

Fill(block, ch, sr, armed) ==
  FillUpTo(block, ch, sr, armed, NumFrames(block, ch)).block

PlaybackInputs ==
  [done : {FALSE},
   armed : BOOLEAN,
   sample_rate : SampleRates,
   block : {[j \in 1..len |-> Stale] : len \in 0..MaxBlock}]

InitFill ==
  /\ InitCallbacks
  /\ channels \in 1..MaxChannels
  /\ data = <<>>
  /\ scanned = NotScanned
  /\ latency = NoLatency
  /\ playback \in PlaybackInputs

\* One invocation of output_data_fn on the block, with the value its single
\* load of signal_active returned.
ApplyFill ==
  /\ ~playback.done
  /\ playback' = [playback EXCEPT
        !.done = TRUE,
        !.block = Fill(playback.block, channels, playback.sample_rate,
                       playback.armed)]
  /\ UNCHANGED <<signal_active, signal_start, now, channels, inputVars,
                 outputVars, start_fresh, stamps, arms, reports, report, data,
                 scanned, latency>>

FillNext == ApplyFill

FillSpec == InitFill /\ [][FillNext]_vars

\* ------------------------------------------------------------------ helpers
\* A step of input_data_fn that leaves position p.
InputLeaves(p) == ipc = p /\ ipc' # p

\* The step that follows the scan of a loud block: the swap(false).
LoudStep == InputLeaves("branch") /\ amplitude_count > ActivityThreshold

\* The step that follows the scan of a silent block: the swap(true).
SilentStep == InputLeaves("branch") /\ amplitude_count = 0

\* The first-channel samples of a block, one per frame.
FirstChannel(d, ch) == [i \in 1..NumFrames(d, ch) |-> FirstSample(d, ch, i)]

AbsDiff(a, b) == IF a > b THEN a - b ELSE b - a

\* All first-channel samples equal a common level v except exactly one, which
\* deviates from v by more than sensitivity.
SingleNoisySample(d, ch) ==
  LET s == FirstChannel(d, ch)
  IN  /\ Len(s) >= 2
      /\ \E k \in 1..Len(s) : \E v \in Samples :
           /\ AbsDiff(s[k], v) > sensitivity
           /\ \A i \in 1..Len(s) : i # k => s[i] = v

\* A sample value above every value of Samples by more than sensitivity.
Spike == 4

\* Sample values of the channels the detector does not read.
OtherLevels == Samples \cup {Spike}

\* The positions of a block that are no frame's first sample.
OtherPositions(d, ch) == {j \in 1..Len(d) : (j - 1) % ch # 0}

\* Blocks of the same length and channel count as d that agree with d on the
\* first sample of every frame: every uniform content of the other channels,
\* and a spike in any one sample of another channel.
Companions(d, ch) ==
  {[j \in 1..Len(d) |-> IF j \in OtherPositions(d, ch) THEN v ELSE d[j]] :
     v \in OtherLevels}
  \cup {[d EXCEPT ![p] = Spike] : p \in OtherPositions(d, ch)}

\* max - min of the first n samples of s.
Spread(s, n) ==
  LET vals == {s[i] : i \in 1..n}
  IN  (CHOOSE x \in vals : \A y \in vals : y <= x)
      - (CHOOSE x \in vals : \A y \in vals : x <= y)

\* The 0-based index of the first frame at which the running max - min of the
\* first channel exceeds sensitivity; the number of frames when none does.
FirstExceed(d, ch) ==
  LET s == FirstChannel(d, ch)
      hits == {i \in 1..Len(s) : Spread(s, i) > sensitivity}
  IN  IF hits = {}
        THEN Len(s)
        ELSE (CHOOSE i \in hits : \A h \in hits : i <= h) - 1

\* The detector has just completed a newly-arming silent block.
NewlyArmed ==
  /\ ipc = "idle"
  /\ last_in = "armed"
  /\ signal_active
  /\ signal_start = 0

\* The detector is processing a loud block.
LoudPending == ipc = "branch" /\ Classify(amplitude_count) = "loud"

\* Armed/stamped.
Stamped == signal_active /\ signal_start # 0

\* ------------------------------------------------------------------- claims

\* C1: every latency report that uses a stamp uses one whose clock reading
\* the transmitter took after the false->true arm transition of the cycle the
\* report closes; a reading taken in an earlier cycle never reaches a report.
C1_NoStaleStampInReport ==
  (reports > 0 /\ report.signal_start # 0) => report.fresh

\* C2: no playback invocation reads signal_active = true of a new arming cycle
\* while the detector's reset of signal_start for that cycle is still pending.
C2_ResetBeforeArmVisible ==
  [][(opc = "idle" /\ opc' = "clock") => ipc # "store"]_vars

\* C3: within one arming cycle the transmitter's compare_exchange succeeds at
\* most once.
C3_StampAtMostOncePerCycle ==
  signal_active => stamps <= 1

\* C4: no step of either callback changes signal_start away from a non-zero
\* value while signal_active is true.
C4_StartNeverOverwrittenWhileArmed ==
  [][(signal_active /\ signal_start # 0) => signal_start' = signal_start]_vars

\* C5 as stated: after a loud block processed while armed and stamped, exactly
\* one report was printed and the state is disarmed with signal_start back
\* at 0.
C5_LoudWhileStampedReturnsToUnset ==
  (last_in = "report" /\ ipc = "idle" /\ begin_stamped)
    => (~signal_active /\ signal_start = 0)

\* C5 as amended: a loud block whose processing began while armed and stamped
\* clears signal_active, prints exactly one report computed from that stamp,
\* and leaves signal_start at the stamped value.
C5_LoudWhileStampedReportsAndKeepsStamp ==
  [][ /\ (LoudStep /\ begin_stamped)
          => /\ ipc' = "load"
             /\ ~signal_active'
             /\ signal_start' = signal_start
             /\ signal_start # 0
             /\ reports' = reports
      /\ (InputLeaves("load") /\ begin_stamped)
          => /\ ipc' = "idle"
             /\ ~signal_active'
             /\ signal_start' = signal_start
             /\ reports' = reports + 1
             /\ report'.signal_start = signal_start
             /\ report'.frame_start = frame_start
             /\ ~report'.wrapped
    ]_vars

C5_Witness ==
  /\ last_in = "report"
  /\ ipc = "idle"
  /\ begin_stamped
  /\ report.signal_start = signal_start
  /\ ~signal_active
  /\ signal_start # 0

\* C6: the signal_start value a report is computed from is the value
\* signal_start held at the instant signal_active was cleared.
C6_ReportUsesStartAtDisarm ==
  reports > 0 => report.signal_start = report.at_disarm

\* C7: a silent block processed while disarmed sets signal_active and then
\* signal_start to 0 and prints nothing; a silent block processed while
\* already armed changes neither signal_active nor signal_start.
C7_SilentBlockArmsOnce ==
  [][ /\ (SilentStep /\ ~signal_active)
          => /\ ipc' = "store"
             /\ signal_active'
             /\ reports' = reports
      /\ InputLeaves("store")
          => /\ ipc' = "idle"
             /\ signal_active'
             /\ signal_start' = 0
             /\ reports' = reports
      /\ (SilentStep /\ signal_active)
          => /\ ipc' = "idle"
             /\ signal_active'
             /\ signal_start' = signal_start
             /\ reports' = reports
    ]_vars

C7_Witness ==
  /\ last_in = "already_armed"
  /\ ipc = "idle"
  /\ signal_active
  /\ signal_start # 0

\* C8 as stated: a loud block processed while disarmed prints nothing, leaves
\* signal_active false, and signal_start is 0 afterwards.
C8_StrayLoudLeavesSentinel ==
  [][(LoudStep /\ ~signal_active)
       => /\ ipc' = "idle"
          /\ reports' = reports
          /\ ~signal_active'
          /\ signal_start' = 0]_vars

\* C8 as amended: a loud block processed while disarmed prints nothing, leaves
\* signal_active false and does not write signal_start.
C8_StrayLoudAbsorbed ==
  [][(LoudStep /\ ~signal_active)
       => /\ ipc' = "idle"
          /\ reports' = reports
          /\ ~signal_active'
          /\ signal_start' = signal_start]_vars

C8_Witness ==
  /\ last_in = "stray_loud"
  /\ ipc = "idle"
  /\ ~signal_active
  /\ signal_start # 0
  /\ reports > 0

\* C9: a block whose amplitude_count is between 1 and 10 inclusive ends the
\* invocation at once: signal_active, signal_start and the reports are
\* unchanged, whatever the state was.
C9_AmbiguousBlockIgnored ==
  [][(InputLeaves("branch") /\ amplitude_count \in 1..ActivityThreshold)
       => /\ ipc' = "idle"
          /\ UNCHANGED <<signal_active, signal_start, arms, reports, report>>]_vars

C9_Witness ==
  /\ last_in = "ambiguous"
  /\ ipc = "idle"
  /\ signal_active
  /\ signal_start # 0

\* C10: a block whose first-channel samples are all equal except for exactly
\* one sample is never classified loud.
C10_SingleNoisySampleNeverLoud ==
  (scanned.done /\ SingleNoisySample(data, channels))
    => scanned.class # "loud"

\* C11: the reported delay is in milliseconds: for an elapsed time of d ns
\* and c frames it equals d / 1,000,000 + c * 1000 / sample_rate.
C11_DelayInMilliseconds ==
  latency.done =>
    latency.delay_ms = (latency.elapsed \div 1000000)
                       + ((latency.delay_count * 1000) \div latency.sample_rate)

\* C12: a playback invocation that loaded signal_active = true while
\* signal_start was 0 ends with signal_start equal to the clock reading it took,
\* and once a stamp of the current arming cycle is in signal_start it stays
\* there for as long as signal_active stays true.
C12_FirstPlaybackStampsAndStays ==
  [][ /\ (opc = "cas" /\ opc' = "idle" /\ o_unstamped)
           => signal_start' = o_now
      /\ (signal_active /\ signal_active' /\ stamps >= 1 /\ signal_start # 0)
           => signal_start' = signal_start ]_vars

\* C13: a playback invocation writes every sample of its block exactly once,
\* whatever the block's length; when its load of signal_active returned false
\* every sample is 0, and when it returned true all samples of one frame carry
\* the same value.
C13_BlockFullyWritten ==
  playback.done =>
    \A j \in 1..Len(playback.block) :
      /\ playback.block[j].writes = 1
      /\ ~playback.armed =>
           (playback.block[j].kind = "zero" /\ playback.block[j].clock = 0)
      /\ playback.armed =>
           \A k \in 1..Len(playback.block) :
             ((j - 1) \div channels = (k - 1) \div channels) =>
               /\ playback.block[k].kind = "tone"
               /\ playback.block[k].clock = playback.block[j].clock

\* A tone block with a short last frame has been filled.
C13_Witness ==
  /\ playback.done
  /\ playback.armed
  /\ Len(playback.block) > channels
  /\ Len(playback.block) % channels # 0

\* C14: two capture blocks of the same channel count that agree on the first
\* sample of every frame yield the same amplitude_count, delay_count, amplitude
\* and classification, hence the same branch of the detector.
C14_OnlyFirstChannelMatters ==
  scanned.done =>
    \A d2 \in Companions(data, channels) :
      LET r == Scan(d2, channels)
      IN  /\ r.amplitude_count = scanned.amplitude_count
          /\ r.delay_count = scanned.delay_count
          /\ r.amplitude = scanned.amplitude
          /\ Classify(r.amplitude_count) = scanned.class

\* A block whose first channel is silent while another channel deviates by
\* more than sensitivity has been scanned.
C14_Witness ==
  /\ scanned.done
  /\ channels >= 2
  /\ Len(data) >= 2 * channels
  /\ scanned.class = "silent"
  /\ \E j \in OtherPositions(data, channels) :
       AbsDiff(data[j], data[1]) > sensitivity

\* C15: for a block of N frames whose running max - min first exceeds
\* sensitivity at 0-based frame k (k = N when it never does),
\* amplitude_count = N - k and delay_count = min(N, k + 10).
C15_CountsFromFirstExceed ==
  scanned.done =>
    LET N == NumFrames(data, channels)
        k == FirstExceed(data, channels)
    IN  /\ scanned.amplitude_count = N - k
        /\ scanned.delay_count = MinOf(N, k + ActivityThreshold)

\* A block that keeps going for more than ten frames after its first
\* exceeding frame, which is not the first frame, has been scanned.
C15_Witness ==
  /\ scanned.done
  /\ FirstExceed(data, channels) >= 1
  /\ NumFrames(data, channels) > FirstExceed(data, channels) + ActivityThreshold
  /\ scanned.delay_count < NumFrames(data, channels)

\* C16: no report is computed from the unset sentinel: the signal_start value
\* every printed report loaded is non-zero.
C16_NoReportFromSentinel ==
  reports > 0 => report.signal_start # 0

\* C17: frame_start - signal_start never underflows: the signal_start loaded
\* for a report is at most the frame_start the invocation sampled at its
\* beginning, so the subtraction neither wraps nor panics.
C17_SubtractionNeverUnderflows ==
  /\ ipc # "panicked"
  /\ reports > 0 => (~report.wrapped /\ report.signal_start <= report.frame_start)

\* C18: reports and arm transitions alternate: every report closes an arming
\* cycle of its own (never more reports than false->true transitions of
\* signal_active), and no second arm transition happens before the report of
\* the first; a loud block processed after a report prints nothing.
C18_ReportsAndArmsAlternate ==
  /\ reports <= arms
  /\ arms <= reports + 1
  /\ (arms = reports /\ ipc # "store") => ~signal_active

\* Two reports have been printed, each after an arm transition of its own.
C18_Witness ==
  /\ reports >= 2
  /\ arms = reports
  /\ last_in = "report"
  /\ ipc = "idle"

\* C19: with a weakly fair playback callback, after the detector has completed
\* a newly-arming silent block (signal_active = true, signal_start = 0), either
\* a loud block is processed later or the state becomes armed with
\* signal_start # 0 and stays so for ever.
C19_ArmedLeadsToStamped ==
  NewlyArmed ~> (LoudPending \/ []Stamped)

\* The stamp that followed a newly-arming silent block is in place, the
\* detector having processed nothing but silent and ambiguous blocks since.
C19_Witness ==
  /\ Stamped
  /\ stamps = 1
  /\ ipc = "idle"
  /\ last_in \in {"armed", "already_armed", "ambiguous"}
  /\ opc = "idle"

====
